---------------------------- MODULE Spec2Model ----------------------------
(***************************************************************************)
(* Model of the customer-onboarding backend                                *)
(* (src/my-onboarding/my-onboarding-backend/app.py and models.py).         *)
(*                                                                         *)
(* The database is the program's state: the `user` table (variable User,   *)
(* a function from primary key to row) and the `admin_config` table        *)
(* (variable AdminConfig, a set of rows).  A handler of create_app() takes *)
(* one step for each statement that reads or writes the database: the      *)
(* loads, each db.session.commit(), and the answer when it reads a row     *)
(* again.  sessions holds, for each worker, the request it is serving, the *)
(* rows it has loaded and the statement it has reached.  created says     *)
(* whether the tables exist (init-db drops them and creates them again),   *)
(* initialized whether no init-db run has dropped the tables since the     *)
(* last run that completed.                                                *)
(*                                                                         *)
(* request / response record the last call that began or was answered and  *)
(* its answer (Pending until it is answered), commits the outcome of each  *)
(* db.session.commit() of that call, in the order they ran, and pre the    *)
(* tables as they were before the call's commit (for the PUT of the admin  *)
(* configuration: admin_config before its first commit, user before its    *)
(* second), so that a handler's contract is a predicate of one state.      *)
(*                                                                         *)
(* Spec, SpecRegister and SpecConfig serve one request at a time;          *)
(* SpecConc, SpecWindow, SpecRace and SpecPuts interleave the steps of     *)
(* two workers.                                                            *)
(***************************************************************************)
EXTENDS Integers, Sequences, FiniteSets, TLC

VARIABLES User, AdminConfig, created, initialized, request, response, pre, commits, sessions

vars == <<User, AdminConfig, created, initialized, request, response, pre, commits,
          sessions>>

----------------------------------------------------------------------------
(* JSON values of a request body.  A string is a sequence of characters,   *)
(* so that int() can be computed character by character.  A character is   *)
(* a one-character string when it is printable ASCII, "\t", "\n", "\r" or  *)
(* "\f", and otherwise its JSON escape ("\\u0663", "\\ud835\\udfce").       *)

JNull == [t |-> "null", n |-> 0, s |-> <<>>]
JInt(i) == [t |-> "int", n |-> i, s |-> <<>>]
JStr(cs) == [t |-> "str", n |-> 0, s |-> cs]
\* a JSON array of len elements (its elements are never read by the handlers)
JList(len) == [t |-> "list", n |-> len, s |-> <<>>]
\* a JSON object of len members, where the handler reads a scalar
JDict(len) == [t |-> "dict", n |-> len, s |-> <<>>]
\* true and false (Python's True and False, which are the integers 1 and 0)
JBool(b) == [t |-> "bool", n |-> IF b THEN 1 ELSE 0, s |-> <<>>]
\* a number with a fraction: whole.frac, whole its integer part and frac the
\* decimal digits after the point (away from zero when whole < 0)
JFloat(whole, frac) == [t |-> "float", n |-> whole, s |-> frac]
\* NaN and Infinity, which json.loads accepts
JNaN == [t |-> "float", n |-> 0, s |-> <<"nan">>]
JInfinity == [t |-> "float", n |-> 1, s |-> <<"inf">>]

\* Python truth value, as all([...]) tests it (app.py:110)
Truthy(v) ==
    CASE v.t = "null"  -> FALSE
      [] v.t = "int"   -> v.n # 0
      [] v.t = "bool"  -> v.n # 0
      [] v.t = "float" -> v.n # 0 \/ \E i \in 1..Len(v.s) : v.s[i] # "0"
      [] v.t = "str"   -> v.s # <<>>
      [] v.t = "list"  -> v.n > 0
      [] v.t = "dict"  -> v.n > 0

\* the decimal digits of Unicode (category Nd), each row the digits 0 to 9 of
\* one script
DigitRows ==
    {<<"0", "1", "2", "3", "4", "5", "6", "7", "8", "9">>,
     <<"\\u0660", "\\u0661", "\\u0662", "\\u0663", "\\u0664", "\\u0665", "\\u0666", "\\u0667", "\\u0668", "\\u0669">>,
     <<"\\u06f0", "\\u06f1", "\\u06f2", "\\u06f3", "\\u06f4", "\\u06f5", "\\u06f6", "\\u06f7", "\\u06f8", "\\u06f9">>,
     <<"\\u07c0", "\\u07c1", "\\u07c2", "\\u07c3", "\\u07c4", "\\u07c5", "\\u07c6", "\\u07c7", "\\u07c8", "\\u07c9">>,
     <<"\\u0966", "\\u0967", "\\u0968", "\\u0969", "\\u096a", "\\u096b", "\\u096c", "\\u096d", "\\u096e", "\\u096f">>,
     <<"\\u09e6", "\\u09e7", "\\u09e8", "\\u09e9", "\\u09ea", "\\u09eb", "\\u09ec", "\\u09ed", "\\u09ee", "\\u09ef">>,
     <<"\\u0a66", "\\u0a67", "\\u0a68", "\\u0a69", "\\u0a6a", "\\u0a6b", "\\u0a6c", "\\u0a6d", "\\u0a6e", "\\u0a6f">>,
     <<"\\u0ae6", "\\u0ae7", "\\u0ae8", "\\u0ae9", "\\u0aea", "\\u0aeb", "\\u0aec", "\\u0aed", "\\u0aee", "\\u0aef">>,
     <<"\\u0b66", "\\u0b67", "\\u0b68", "\\u0b69", "\\u0b6a", "\\u0b6b", "\\u0b6c", "\\u0b6d", "\\u0b6e", "\\u0b6f">>,
     <<"\\u0be6", "\\u0be7", "\\u0be8", "\\u0be9", "\\u0bea", "\\u0beb", "\\u0bec", "\\u0bed", "\\u0bee", "\\u0bef">>,
     <<"\\u0c66", "\\u0c67", "\\u0c68", "\\u0c69", "\\u0c6a", "\\u0c6b", "\\u0c6c", "\\u0c6d", "\\u0c6e", "\\u0c6f">>,
     <<"\\u0ce6", "\\u0ce7", "\\u0ce8", "\\u0ce9", "\\u0cea", "\\u0ceb", "\\u0cec", "\\u0ced", "\\u0cee", "\\u0cef">>,
     <<"\\u0d66", "\\u0d67", "\\u0d68", "\\u0d69", "\\u0d6a", "\\u0d6b", "\\u0d6c", "\\u0d6d", "\\u0d6e", "\\u0d6f">>,
     <<"\\u0de6", "\\u0de7", "\\u0de8", "\\u0de9", "\\u0dea", "\\u0deb", "\\u0dec", "\\u0ded", "\\u0dee", "\\u0def">>,
     <<"\\u0e50", "\\u0e51", "\\u0e52", "\\u0e53", "\\u0e54", "\\u0e55", "\\u0e56", "\\u0e57", "\\u0e58", "\\u0e59">>,
     <<"\\u0ed0", "\\u0ed1", "\\u0ed2", "\\u0ed3", "\\u0ed4", "\\u0ed5", "\\u0ed6", "\\u0ed7", "\\u0ed8", "\\u0ed9">>,
     <<"\\u0f20", "\\u0f21", "\\u0f22", "\\u0f23", "\\u0f24", "\\u0f25", "\\u0f26", "\\u0f27", "\\u0f28", "\\u0f29">>,
     <<"\\u1040", "\\u1041", "\\u1042", "\\u1043", "\\u1044", "\\u1045", "\\u1046", "\\u1047", "\\u1048", "\\u1049">>,
     <<"\\u1090", "\\u1091", "\\u1092", "\\u1093", "\\u1094", "\\u1095", "\\u1096", "\\u1097", "\\u1098", "\\u1099">>,
     <<"\\u17e0", "\\u17e1", "\\u17e2", "\\u17e3", "\\u17e4", "\\u17e5", "\\u17e6", "\\u17e7", "\\u17e8", "\\u17e9">>,
     <<"\\u1810", "\\u1811", "\\u1812", "\\u1813", "\\u1814", "\\u1815", "\\u1816", "\\u1817", "\\u1818", "\\u1819">>,
     <<"\\u1946", "\\u1947", "\\u1948", "\\u1949", "\\u194a", "\\u194b", "\\u194c", "\\u194d", "\\u194e", "\\u194f">>,
     <<"\\u19d0", "\\u19d1", "\\u19d2", "\\u19d3", "\\u19d4", "\\u19d5", "\\u19d6", "\\u19d7", "\\u19d8", "\\u19d9">>,
     <<"\\u1a80", "\\u1a81", "\\u1a82", "\\u1a83", "\\u1a84", "\\u1a85", "\\u1a86", "\\u1a87", "\\u1a88", "\\u1a89">>,
     <<"\\u1a90", "\\u1a91", "\\u1a92", "\\u1a93", "\\u1a94", "\\u1a95", "\\u1a96", "\\u1a97", "\\u1a98", "\\u1a99">>,
     <<"\\u1b50", "\\u1b51", "\\u1b52", "\\u1b53", "\\u1b54", "\\u1b55", "\\u1b56", "\\u1b57", "\\u1b58", "\\u1b59">>,
     <<"\\u1bb0", "\\u1bb1", "\\u1bb2", "\\u1bb3", "\\u1bb4", "\\u1bb5", "\\u1bb6", "\\u1bb7", "\\u1bb8", "\\u1bb9">>,
     <<"\\u1c40", "\\u1c41", "\\u1c42", "\\u1c43", "\\u1c44", "\\u1c45", "\\u1c46", "\\u1c47", "\\u1c48", "\\u1c49">>,
     <<"\\u1c50", "\\u1c51", "\\u1c52", "\\u1c53", "\\u1c54", "\\u1c55", "\\u1c56", "\\u1c57", "\\u1c58", "\\u1c59">>,
     <<"\\ua620", "\\ua621", "\\ua622", "\\ua623", "\\ua624", "\\ua625", "\\ua626", "\\ua627", "\\ua628", "\\ua629">>,
     <<"\\ua8d0", "\\ua8d1", "\\ua8d2", "\\ua8d3", "\\ua8d4", "\\ua8d5", "\\ua8d6", "\\ua8d7", "\\ua8d8", "\\ua8d9">>,
     <<"\\ua900", "\\ua901", "\\ua902", "\\ua903", "\\ua904", "\\ua905", "\\ua906", "\\ua907", "\\ua908", "\\ua909">>,
     <<"\\ua9d0", "\\ua9d1", "\\ua9d2", "\\ua9d3", "\\ua9d4", "\\ua9d5", "\\ua9d6", "\\ua9d7", "\\ua9d8", "\\ua9d9">>,
     <<"\\ua9f0", "\\ua9f1", "\\ua9f2", "\\ua9f3", "\\ua9f4", "\\ua9f5", "\\ua9f6", "\\ua9f7", "\\ua9f8", "\\ua9f9">>,
     <<"\\uaa50", "\\uaa51", "\\uaa52", "\\uaa53", "\\uaa54", "\\uaa55", "\\uaa56", "\\uaa57", "\\uaa58", "\\uaa59">>,
     <<"\\uabf0", "\\uabf1", "\\uabf2", "\\uabf3", "\\uabf4", "\\uabf5", "\\uabf6", "\\uabf7", "\\uabf8", "\\uabf9">>,
     <<"\\uff10", "\\uff11", "\\uff12", "\\uff13", "\\uff14", "\\uff15", "\\uff16", "\\uff17", "\\uff18", "\\uff19">>,
     <<"\\ud801\\udca0", "\\ud801\\udca1", "\\ud801\\udca2", "\\ud801\\udca3", "\\ud801\\udca4", "\\ud801\\udca5", "\\ud801\\udca6", "\\ud801\\udca7", "\\ud801\\udca8", "\\ud801\\udca9">>,
     <<"\\ud803\\udd30", "\\ud803\\udd31", "\\ud803\\udd32", "\\ud803\\udd33", "\\ud803\\udd34", "\\ud803\\udd35", "\\ud803\\udd36", "\\ud803\\udd37", "\\ud803\\udd38", "\\ud803\\udd39">>,
     <<"\\ud804\\udc66", "\\ud804\\udc67", "\\ud804\\udc68", "\\ud804\\udc69", "\\ud804\\udc6a", "\\ud804\\udc6b", "\\ud804\\udc6c", "\\ud804\\udc6d", "\\ud804\\udc6e", "\\ud804\\udc6f">>,
     <<"\\ud804\\udcf0", "\\ud804\\udcf1", "\\ud804\\udcf2", "\\ud804\\udcf3", "\\ud804\\udcf4", "\\ud804\\udcf5", "\\ud804\\udcf6", "\\ud804\\udcf7", "\\ud804\\udcf8", "\\ud804\\udcf9">>,
     <<"\\ud804\\udd36", "\\ud804\\udd37", "\\ud804\\udd38", "\\ud804\\udd39", "\\ud804\\udd3a", "\\ud804\\udd3b", "\\ud804\\udd3c", "\\ud804\\udd3d", "\\ud804\\udd3e", "\\ud804\\udd3f">>,
     <<"\\ud804\\uddd0", "\\ud804\\uddd1", "\\ud804\\uddd2", "\\ud804\\uddd3", "\\ud804\\uddd4", "\\ud804\\uddd5", "\\ud804\\uddd6", "\\ud804\\uddd7", "\\ud804\\uddd8", "\\ud804\\uddd9">>,
     <<"\\ud804\\udef0", "\\ud804\\udef1", "\\ud804\\udef2", "\\ud804\\udef3", "\\ud804\\udef4", "\\ud804\\udef5", "\\ud804\\udef6", "\\ud804\\udef7", "\\ud804\\udef8", "\\ud804\\udef9">>,
     <<"\\ud805\\udc50", "\\ud805\\udc51", "\\ud805\\udc52", "\\ud805\\udc53", "\\ud805\\udc54", "\\ud805\\udc55", "\\ud805\\udc56", "\\ud805\\udc57", "\\ud805\\udc58", "\\ud805\\udc59">>,
     <<"\\ud805\\udcd0", "\\ud805\\udcd1", "\\ud805\\udcd2", "\\ud805\\udcd3", "\\ud805\\udcd4", "\\ud805\\udcd5", "\\ud805\\udcd6", "\\ud805\\udcd7", "\\ud805\\udcd8", "\\ud805\\udcd9">>,
     <<"\\ud805\\ude50", "\\ud805\\ude51", "\\ud805\\ude52", "\\ud805\\ude53", "\\ud805\\ude54", "\\ud805\\ude55", "\\ud805\\ude56", "\\ud805\\ude57", "\\ud805\\ude58", "\\ud805\\ude59">>,
     <<"\\ud805\\udec0", "\\ud805\\udec1", "\\ud805\\udec2", "\\ud805\\udec3", "\\ud805\\udec4", "\\ud805\\udec5", "\\ud805\\udec6", "\\ud805\\udec7", "\\ud805\\udec8", "\\ud805\\udec9">>,
     <<"\\ud805\\udf30", "\\ud805\\udf31", "\\ud805\\udf32", "\\ud805\\udf33", "\\ud805\\udf34", "\\ud805\\udf35", "\\ud805\\udf36", "\\ud805\\udf37", "\\ud805\\udf38", "\\ud805\\udf39">>,
     <<"\\ud806\\udce0", "\\ud806\\udce1", "\\ud806\\udce2", "\\ud806\\udce3", "\\ud806\\udce4", "\\ud806\\udce5", "\\ud806\\udce6", "\\ud806\\udce7", "\\ud806\\udce8", "\\ud806\\udce9">>,
     <<"\\ud806\\udd50", "\\ud806\\udd51", "\\ud806\\udd52", "\\ud806\\udd53", "\\ud806\\udd54", "\\ud806\\udd55", "\\ud806\\udd56", "\\ud806\\udd57", "\\ud806\\udd58", "\\ud806\\udd59">>,
     <<"\\ud807\\udc50", "\\ud807\\udc51", "\\ud807\\udc52", "\\ud807\\udc53", "\\ud807\\udc54", "\\ud807\\udc55", "\\ud807\\udc56", "\\ud807\\udc57", "\\ud807\\udc58", "\\ud807\\udc59">>,
     <<"\\ud807\\udd50", "\\ud807\\udd51", "\\ud807\\udd52", "\\ud807\\udd53", "\\ud807\\udd54", "\\ud807\\udd55", "\\ud807\\udd56", "\\ud807\\udd57", "\\ud807\\udd58", "\\ud807\\udd59">>,
     <<"\\ud807\\udda0", "\\ud807\\udda1", "\\ud807\\udda2", "\\ud807\\udda3", "\\ud807\\udda4", "\\ud807\\udda5", "\\ud807\\udda6", "\\ud807\\udda7", "\\ud807\\udda8", "\\ud807\\udda9">>,
     <<"\\ud81a\\ude60", "\\ud81a\\ude61", "\\ud81a\\ude62", "\\ud81a\\ude63", "\\ud81a\\ude64", "\\ud81a\\ude65", "\\ud81a\\ude66", "\\ud81a\\ude67", "\\ud81a\\ude68", "\\ud81a\\ude69">>,
     <<"\\ud81a\\udec0", "\\ud81a\\udec1", "\\ud81a\\udec2", "\\ud81a\\udec3", "\\ud81a\\udec4", "\\ud81a\\udec5", "\\ud81a\\udec6", "\\ud81a\\udec7", "\\ud81a\\udec8", "\\ud81a\\udec9">>,
     <<"\\ud81a\\udf50", "\\ud81a\\udf51", "\\ud81a\\udf52", "\\ud81a\\udf53", "\\ud81a\\udf54", "\\ud81a\\udf55", "\\ud81a\\udf56", "\\ud81a\\udf57", "\\ud81a\\udf58", "\\ud81a\\udf59">>,
     <<"\\ud835\\udfce", "\\ud835\\udfcf", "\\ud835\\udfd0", "\\ud835\\udfd1", "\\ud835\\udfd2", "\\ud835\\udfd3", "\\ud835\\udfd4", "\\ud835\\udfd5", "\\ud835\\udfd6", "\\ud835\\udfd7">>,
     <<"\\ud835\\udfd8", "\\ud835\\udfd9", "\\ud835\\udfda", "\\ud835\\udfdb", "\\ud835\\udfdc", "\\ud835\\udfdd", "\\ud835\\udfde", "\\ud835\\udfdf", "\\ud835\\udfe0", "\\ud835\\udfe1">>,
     <<"\\ud835\\udfe2", "\\ud835\\udfe3", "\\ud835\\udfe4", "\\ud835\\udfe5", "\\ud835\\udfe6", "\\ud835\\udfe7", "\\ud835\\udfe8", "\\ud835\\udfe9", "\\ud835\\udfea", "\\ud835\\udfeb">>,
     <<"\\ud835\\udfec", "\\ud835\\udfed", "\\ud835\\udfee", "\\ud835\\udfef", "\\ud835\\udff0", "\\ud835\\udff1", "\\ud835\\udff2", "\\ud835\\udff3", "\\ud835\\udff4", "\\ud835\\udff5">>,
     <<"\\ud835\\udff6", "\\ud835\\udff7", "\\ud835\\udff8", "\\ud835\\udff9", "\\ud835\\udffa", "\\ud835\\udffb", "\\ud835\\udffc", "\\ud835\\udffd", "\\ud835\\udffe", "\\ud835\\udfff">>,
     <<"\\ud838\\udd40", "\\ud838\\udd41", "\\ud838\\udd42", "\\ud838\\udd43", "\\ud838\\udd44", "\\ud838\\udd45", "\\ud838\\udd46", "\\ud838\\udd47", "\\ud838\\udd48", "\\ud838\\udd49">>,
     <<"\\ud838\\udef0", "\\ud838\\udef1", "\\ud838\\udef2", "\\ud838\\udef3", "\\ud838\\udef4", "\\ud838\\udef5", "\\ud838\\udef6", "\\ud838\\udef7", "\\ud838\\udef8", "\\ud838\\udef9">>,
     <<"\\ud83a\\udd50", "\\ud83a\\udd51", "\\ud83a\\udd52", "\\ud83a\\udd53", "\\ud83a\\udd54", "\\ud83a\\udd55", "\\ud83a\\udd56", "\\ud83a\\udd57", "\\ud83a\\udd58", "\\ud83a\\udd59">>,
     <<"\\ud83e\\udff0", "\\ud83e\\udff1", "\\ud83e\\udff2", "\\ud83e\\udff3", "\\ud83e\\udff4", "\\ud83e\\udff5", "\\ud83e\\udff6", "\\ud83e\\udff7", "\\ud83e\\udff8", "\\ud83e\\udff9">>}

Digits == UNION {{row[i] : i \in 1..10} : row \in DigitRows}

DigitVal(c) == (CHOOSE i \in 1..10 : \E row \in DigitRows : row[i] = c) - 1

\* the characters int() skips at both ends of a string: the ASCII ones C's
\* isspace() knows, and the Unicode spaces outside ASCII
Whitespace ==
    {" ", "\t", "\n", "\\u000b", "\f", "\r",
     "\\u0085", "\\u00a0", "\\u1680",
     "\\u2000", "\\u2001", "\\u2002", "\\u2003", "\\u2004", "\\u2005",
     "\\u2006", "\\u2007", "\\u2008", "\\u2009", "\\u200a",
     "\\u2028", "\\u2029", "\\u202f", "\\u205f", "\\u3000"}

RECURSIVE LStrip(_)
LStrip(cs) == IF cs # <<>> /\ Head(cs) \in Whitespace THEN LStrip(Tail(cs)) ELSE cs

RECURSIVE RStrip(_)
RStrip(cs) ==
    IF cs # <<>> /\ cs[Len(cs)] \in Whitespace
    THEN RStrip(SubSeq(cs, 1, Len(cs) - 1)) ELSE cs

RECURSIVE DecimalVal(_)
DecimalVal(cs) ==
    IF cs = <<>> THEN 0
    ELSE 10 * DecimalVal(SubSeq(cs, 1, Len(cs) - 1)) + DigitVal(cs[Len(cs)])

\* digits, with single underscores between digits only
DigitsWithUnderscores(cs) ==
    /\ cs # <<>>
    /\ \A i \in 1..Len(cs) :
          \/ cs[i] \in Digits
          \/ /\ cs[i] = "_"
             /\ 1 < i /\ i < Len(cs)
             /\ cs[i - 1] \in Digits /\ cs[i + 1] \in Digits

IsDigit(c) == c \in Digits

\* the greatest number of digits int() converts (sys.get_int_max_str_digits())
int_max_str_digits == 4300

\* the greatest value of an Integer column of the configured database
\* (PostgreSQL, config.py)
IntegerMax == 2147483647

\* the digits of ds from its first digit that is not a zero
RECURSIVE Significant(_)
Significant(ds) ==
    IF ds # <<>> /\ DigitVal(Head(ds)) = 0 THEN Significant(Tail(ds)) ELSE ds

\* the number written with the digits ds is greater than IntegerMax
Wide(ds) ==
    LET sig == Significant(ds)
    IN  \/ Len(sig) > 10
        \/ /\ Len(sig) = 10
           /\ \/ DecimalVal(SubSeq(sig, 1, 9)) > IntegerMax \div 10
              \/ /\ DecimalVal(SubSeq(sig, 1, 9)) = IntegerMax \div 10
                 /\ DigitVal(sig[10]) > IntegerMax % 10

\* Python's int(x) on a JSON value: [exc, n, wide].  A str is stripped, may
\* carry one sign, and must then be at most int_max_str_digits decimal
\* digits, with single underscores between them, else ValueError; a number
\* with a fraction is truncated toward zero, NaN raises ValueError and
\* Infinity OverflowError; True and False are 1 and 0; a list, an object (or
\* None) raises TypeError.  wide tells that the number is beyond IntegerMax,
\* and n is then IntegerMax.
py_int(v) ==
    CASE v.t \in {"int", "bool"} -> [exc |-> "", n |-> v.n, wide |-> FALSE]
      [] v.t = "float" ->
           IF v.s = <<"nan">> THEN [exc |-> "ValueError", n |-> 0, wide |-> FALSE]
           ELSE IF v.s = <<"inf">> THEN [exc |-> "OverflowError", n |-> 0, wide |-> FALSE]
           ELSE [exc |-> "", n |-> v.n, wide |-> FALSE]
      [] v.t = "str" ->
           LET body   == RStrip(LStrip(v.s))
               signed == body # <<>> /\ Head(body) \in {"+", "-"}
               digs   == IF signed THEN Tail(body) ELSE body
               ds     == SelectSeq(digs, IsDigit)
               val    == IF Wide(ds) THEN IntegerMax ELSE DecimalVal(Significant(ds))
           IN  IF ~DigitsWithUnderscores(digs) \/ Len(ds) > int_max_str_digits
               THEN [exc |-> "ValueError", n |-> 0, wide |-> FALSE]
               ELSE [exc |-> "",
                     n |-> IF signed /\ Head(body) = "-" THEN 0 - val ELSE val,
                     wide |-> Wide(ds)]
      [] OTHER -> [exc |-> "TypeError", n |-> 0, wide |-> FALSE]

\* Python's == on two JSON values: numbers are compared by value, whatever
\* their type (18 == 18.0, True == 1)
Fraction(v) ==
    LET last == {i \in 1..Len(v.s) : v.s[i] # "0"}
    IN  IF last = {} THEN <<>>
        ELSE SubSeq(v.s, 1, CHOOSE i \in last : \A j \in last : j <= i)

IsNumber(v) == v.t \in {"int", "bool"} \/ (v.t = "float" /\ v \notin {JNaN, JInfinity})

py_eq(a, b) ==
    \/ a = b
    \/ /\ IsNumber(a) /\ IsNumber(b)
       /\ a.n = b.n
       /\ (IF a.t = "float" THEN Fraction(a) ELSE <<>>)
             = (IF b.t = "float" THEN Fraction(b) ELSE <<>>)

\* == on two dicts of JSON values
dict_eq(d, e) == DOMAIN d = DOMAIN e /\ \A k \in DOMAIN d : py_eq(d[k], e[k])

Max(a, b) == IF a >= b THEN a ELSE b

----------------------------------------------------------------------------
(* Program constants                                                       *)

\* if age < 1 (app.py:115)
MinAge == 1
\* if age < 18 (app.py:117)
AdultAge == 18
\* current_step=1 for a new user (app.py:139) and after the reset (app.py:261)
FirstStep == 1
\* user.current_step = 4 (app.py:214)
CompletedStep == 4

----------------------------------------------------------------------------
(* Sample values the requests are drawn from                               *)

Alice == <<"a", "l">>
Bob == <<"b", "o">>
EmailA == <<"a", "@", "x">>
EmailB == <<"b", "@", "x">>
Password == <<"p", "w">>

Usernames == {Alice, Bob}
Emails == {EmailA, EmailB}
\* primary keys uuid4 can produce ("backend-user-xxxxxxxx")
Ids == {"backend-user-1", "backend-user-2"}
\* the workers that serve requests side by side
Workers == {"w1", "w2"}

\* an optional request field: absent (or null), or present with a value
None == [some |-> FALSE, val |-> <<>>]
Some(x) == [some |-> TRUE, val |-> x]

----------------------------------------------------------------------------
(* The tables (models.py)                                                  *)

\* username = db.Column(..., unique=False, ...) (models.py:48)
UsernameUnique == FALSE
\* mutant: the unique constraint on email is dropped
EmailNotUnique == FALSE

\* email = db.Column(..., unique=True, ...) (models.py:49)
EmailUnique == TRUE

\* mutant: the query filters on the wrong column
email_exists_by_username(U, email) == \E i \in DOMAIN U : U[i].username = email

\* User.query.filter_by(email=email).first() is not None
email_exists(U, email) == \E i \in DOMAIN U : U[i].email = email

\* User.query.filter_by(username=username).first() is not None
username_exists(U, username) == \E i \in DOMAIN U : U[i].username = username

\* werkzeug's generate_password_hash: an opaque digest of the password
generate_password_hash(password) == [method |-> "scrypt", of |-> password]

\* User.to_dict() (created_at, a timestamp, is left out of the model)
User_to_dict(id, row) ==
    [id |-> id, username |-> row.username, email |-> row.email, age |-> row.age,
     onboardingData |-> row.onboarding_data, currentStep |-> row.current_step]

\* AdminConfig.to_dict()
AdminConfig_to_dict(row) ==
    [page1 |-> row.page1_components, page2 |-> row.page2_components,
     page3 |-> row.page3_components]

\* the row init-db seeds
default_config ==
    [id |-> 1, config_name |-> "default",
     page1_components |-> <<"email", "age">>,
     page2_components |-> <<"aboutMe", "address">>,
     page3_components |-> <<"birthdate">>]

\* AdminConfig.query.filter_by(config_name='default')
default_rows(C) == {r \in C : r.config_name = "default"}

\* .first() of that query
config_entry_of(C) == CHOOSE r \in default_rows(C) : TRUE

\* db.session.add(new_user); db.session.commit(): the INSERT fails on a
\* primary-key or unique-constraint violation, or when the storage fails
insert_ok(U, id, row, db_ok) ==
    /\ db_ok
    /\ id \notin DOMAIN U
    /\ EmailUnique => ~email_exists(U, row.email)
    /\ UsernameUnique => ~username_exists(U, row.username)

insert_user(U, id, row) == [i \in DOMAIN U \cup {id} |-> IF i = id THEN row ELSE U[i]]

\* mutant: {**new_onboarding_data, **current_data}, the stored value wins
merge_keeping_current(current_data, new_data) ==
    [k \in DOMAIN current_data \cup DOMAIN new_data |->
        IF k \in DOMAIN current_data THEN current_data[k] ELSE new_data[k]]

\* {**current_data, **new_onboarding_data}
merge(current_data, new_data) ==
    [k \in DOMAIN current_data \cup DOMAIN new_data |->
        IF k \in DOMAIN new_data THEN new_data[k] ELSE current_data[k]]

----------------------------------------------------------------------------
(* Responses                                                               *)

Resp(status, body) == [status |-> status, body |-> body]
Error(status, text) == Resp(status, [error |-> text])
\* no check has failed
Pass == Resp(0, [error |-> ""])
\* an exception no handler catches: Flask answers 500
Uncaught(exc) == Error(500, exc)
\* a statement on a table that init-db has dropped and not yet created again
\* raises ProgrammingError
NoTable == Uncaught("ProgrammingError")
\* a request a worker is serving has no answer yet
Pending == Resp(0, [message |-> "pending"])

Snapshot == [User |-> User, AdminConfig |-> AdminConfig]

----------------------------------------------------------------------------
(* POST /register                                                          *)

\* mutant: the test for minors is missing
age_check_positive_only(age) ==
    IF age < MinAge THEN Error(400, "Invalid age provided.") ELSE Pass

\* the two tests on the integer age (lines 115-118)
age_check(age) ==
    IF age < MinAge THEN Error(400, "Invalid age provided.")
    ELSE IF age < AdultAge
    THEN Error(403, "Cannot Onboard You, Please have an adult to register your details.")
    ELSE Pass

\* the tests on the request body alone (lines 110-120); Pass when none fails
register_validation(data) ==
    IF ~(Truthy(data.username) /\ Truthy(data.email)
         /\ Truthy(data.password) /\ Truthy(data.age))
    THEN Error(400, "Username, email, password, and age are required.")
    ELSE LET age == py_int(data.age)
         IN  IF age.exc = "ValueError"
             THEN Error(400, "Age must be a valid number.")
             ELSE IF age.exc # "" THEN Uncaught(age.exc)
             ELSE age_check(age.n)

\* the User(...) object register_user builds
new_user(data) ==
    LET age == py_int(data.age).n
    IN  [username |-> data.username.s,
         email |-> data.email.s,
         password_hash |-> generate_password_hash(data.password.s),
         age |-> age,
         onboarding_data |->
             [k \in {"email", "age"} |-> IF k = "email" THEN JStr(data.email.s) ELSE JInt(age)],
         current_step |-> FirstStep]

register_created(id, row) ==
    Resp(201, [message |-> "User registered successfully.", userId |-> id,
               onboardingData |-> row.onboarding_data,
               currentStep |-> row.current_step, username |-> row.username])

\* a worker with no request in flight
Idle == [pc |-> "idle", data |-> <<>>, id |-> ""]

\* no worker has a request in flight
Quiet == \A w \in Workers : sessions[w].pc = "idle"

\* worker w has taken the first step of a handler and goes on with it:
\* session is what its db.session and its local variables hold
begins(w, op, user_id, data, session) ==
    /\ request' = [op |-> op, user_id |-> user_id, data |-> data]
    /\ response' = Pending
    /\ pre' = Snapshot
    /\ commits' = <<>>
    /\ sessions' = [sessions EXCEPT ![w] = session]
    /\ UNCHANGED <<created, initialized>>

\* worker w returns answer; before is the tables as they were before the
\* handler's commits, outcomes the outcome of each commit
answers(w, op, user_id, data, answer, before, outcomes) ==
    /\ request' = [op |-> op, user_id |-> user_id, data |-> data]
    /\ response' = answer
    /\ pre' = before
    /\ commits' = outcomes
    /\ sessions' = [sessions EXCEPT ![w] = Idle]
    /\ UNCHANGED <<created, initialized>>

\* worker w returns before its handler has committed anything
rejects(w, op, user_id, data, answer) ==
    answers(w, op, user_id, data, answer, Snapshot, <<>>)

\* register_user up to line 123: the tests on the body and the SELECT by
\* email
register_select_email(w, data) ==
    /\ sessions[w].pc = "idle"
    /\ IF register_validation(data) # Pass
       THEN rejects(w, "register_user", "", data, register_validation(data))
       ELSE IF ~created
       THEN rejects(w, "register_user", "", data, NoTable)
       ELSE IF email_exists(User, data.email.s)
       THEN rejects(w, "register_user", "", data,
                    Error(409, "User with this email already exists."))
       ELSE begins(w, "register_user", "", data,
                   [pc |-> "register_select_username", data |-> data, id |-> ""])
    /\ UNCHANGED <<User, AdminConfig>>

\* lines 125-140: the SELECT by username, and the User object built with a
\* fresh uuid
register_select_username(w) ==
    /\ sessions[w].pc = "register_select_username"
    /\ IF ~created
       THEN rejects(w, "register_user", "", sessions[w].data, NoTable)
       ELSE IF username_exists(User, sessions[w].data.username.s)
       THEN rejects(w, "register_user", "", sessions[w].data,
                    Error(409, "User with this username already exists."))
       ELSE /\ \E id \in Ids :
                 sessions' = [sessions EXCEPT ![w] =
                                 [pc |-> "register_commit", data |-> sessions[w].data,
                                  id |-> id]]
            /\ UNCHANGED <<created, initialized, request, response, pre, commits>>
    /\ UNCHANGED <<User, AdminConfig>>

\* the outcomes the commit of a registration can have: an age beyond the
\* Integer column is refused
insert_outcomes(data) == IF py_int(data.age).wide THEN {FALSE} ELSE BOOLEAN

\* lines 142-144: add and commit; a refused INSERT is answered at once
\* (lines 152-156)
register_commit(w) ==
    /\ sessions[w].pc = "register_commit"
    /\ \E db_ok \in IF created THEN insert_outcomes(sessions[w].data) ELSE {FALSE} :
         LET id  == sessions[w].id
             row == new_user(sessions[w].data)
         IN  IF insert_ok(User, id, row, db_ok)
             THEN /\ User' = insert_user(User, id, row)
                  /\ sessions' = [sessions EXCEPT ![w] =
                                     [pc |-> "register_answer", data |-> sessions[w].data,
                                      id |-> id, pre |-> Snapshot]]
                  /\ UNCHANGED <<created, initialized, request, response, pre, commits>>
             ELSE /\ User' = User
                  /\ answers(w, "register_user", "", sessions[w].data,
                             Error(500, "Internal server error during registration."),
                             Snapshot, <<FALSE>>)
    /\ UNCHANGED AdminConfig

\* lines 145-156: the answer, which reads the committed row again (the commit
\* has expired new_user); when the row is gone the read raises and the
\* handler answers 500
register_answer(w) ==
    /\ sessions[w].pc = "register_answer"
    /\ answers(w, "register_user", "", sessions[w].data,
               IF sessions[w].id \in DOMAIN User
               THEN register_created(sessions[w].id, User[sessions[w].id])
               ELSE Error(500, "Internal server error during registration."),
               sessions[w].pre, <<TRUE>>)
    /\ UNCHANGED <<User, AdminConfig>>

----------------
(* GET /user/<id>/progress                                                 *)

get_user_progress(user_id) ==
    /\ request' = [op |-> "get_user_progress", user_id |-> user_id, data |-> <<>>]
    /\ pre' = Snapshot
    /\ commits' = <<>>
    /\ response' = IF ~created
                   THEN NoTable
                   ELSE IF user_id \notin DOMAIN User
                   THEN Error(404, "User not found.")
                   ELSE Resp(200, User_to_dict(user_id, User[user_id]))
    /\ UNCHANGED <<User, AdminConfig, created, initialized, sessions>>

----------------------------------------------------------------------------
(* PUT /user/<id>/update_data                                              *)

\* user.onboarding_data after lines 183-191
updated_onboarding_data(user, new_onboarding_data) ==
    IF new_onboarding_data.some
    THEN merge(user.onboarding_data, new_onboarding_data.val)
    ELSE user.onboarding_data

\* the JSON types max() can compare with the stored integer (line 194); with
\* a str, a list or an object max() raises TypeError
Comparable == {"null", "int", "bool", "float"}

\* new_current_step > user.current_step, the test by which max() prefers its
\* second argument (NaN is greater than nothing)
step_greater(user, new_current_step) ==
    CASE new_current_step.t \in {"int", "bool"} -> new_current_step.n > user.current_step
      [] new_current_step.t = "float" ->
           IF new_current_step = JNaN THEN FALSE
           ELSE IF new_current_step = JInfinity THEN TRUE
           ELSE \/ new_current_step.n > user.current_step
                \/ /\ new_current_step.n = user.current_step
                   /\ \E i \in 1..Len(new_current_step.s) : new_current_step.s[i] # "0"
      [] OTHER -> FALSE

\* the integer the Integer column of the configured database (PostgreSQL,
\* config.py) stores for a number greater than a stored step: a fraction is
\* rounded to the nearest integer, a half upwards
stored_integer(v) ==
    IF v.t = "float" /\ v.s # <<>> /\ DigitVal(v.s[1]) >= 5 THEN v.n + 1 ELSE v.n

\* Infinity cannot be stored in the Integer column: the commit fails
storable(new_current_step) == new_current_step # JInfinity

\* mutant: the proposed step is assigned as given
max_current_step_assigned(user, new_current_step) ==
    IF new_current_step.t # "null" THEN new_current_step ELSE JInt(user.current_step)

\* user.current_step after lines 193-194, as the session holds it: the
\* number max() returns, with its fraction (new_current_step a number or
\* None)
max_current_step(user, new_current_step) ==
    IF new_current_step.t # "null" /\ step_greater(user, new_current_step)
    THEN new_current_step
    ELSE JInt(user.current_step)

\* the outcomes the commit of an update can have
commit_outcomes(user, new_current_step) ==
    IF step_greater(user, new_current_step) /\ ~storable(new_current_step)
    THEN {FALSE} ELSE BOOLEAN

\* update_user_data up to line 194: the row is loaded and the new values are
\* pending in the session
update_load(w, user_id, data) ==
    /\ sessions[w].pc = "idle"
    /\ IF ~created
       THEN rejects(w, "update_user_data", user_id, data, NoTable)
       ELSE IF user_id \notin DOMAIN User
       THEN rejects(w, "update_user_data", user_id, data, Error(404, "User not found."))
       ELSE IF data.currentStep.t \notin Comparable
       THEN \* max(int, str) raises TypeError before anything is committed
            rejects(w, "update_user_data", user_id, data, Uncaught("TypeError"))
       ELSE begins(w, "update_user_data", user_id, data,
                   [pc |-> "update_commit", data |-> data, id |-> user_id,
                    user |-> User[user_id]])
    /\ UNCHANGED <<User, AdminConfig>>

\* the stored row after the UPDATE a session flushes for a row it loaded as
\* `loaded` and holds as `pending`: the columns whose pending value is not
\* equal (==) to the loaded one are written
flushed(stored, loaded, pending) ==
    [stored EXCEPT
       !.onboarding_data = IF ~dict_eq(pending.onboarding_data, loaded.onboarding_data)
                           THEN pending.onboarding_data ELSE @,
       !.current_step = IF pending.current_step # loaded.current_step
                        THEN pending.current_step ELSE @]

\* the session has an UPDATE to send for the row
dirty(loaded, pending) == flushed(loaded, loaded, pending) # loaded

\* what the session of update_user_data holds for the row it loaded, after
\* lines 183-194
update_pending(loaded, data) ==
    [onboarding_data |-> updated_onboarding_data(loaded, data.onboardingData),
     current_step |-> max_current_step(loaded, data.currentStep)]

\* the session of update_user_data has an UPDATE to send: a pending value is
\* not equal (==) to the loaded one
update_dirty(loaded, pending) ==
    \/ ~dict_eq(pending.onboarding_data, loaded.onboarding_data)
    \/ ~py_eq(pending.current_step, JInt(loaded.current_step))

\* the stored row after the UPDATE of update_user_data: the columns whose
\* pending value is not equal (==) to the loaded one are written, the step as
\* the Integer column stores it
update_flushed(stored, loaded, pending) ==
    [stored EXCEPT
       !.onboarding_data = IF ~dict_eq(pending.onboarding_data, loaded.onboarding_data)
                           THEN pending.onboarding_data ELSE @,
       !.current_step = IF ~py_eq(pending.current_step, JInt(loaded.current_step))
                        THEN stored_integer(pending.current_step) ELSE @]

\* mutant: the merge is committed on its own before the step, so that a
\* failed commit of the step leaves the merged data stored
update_commit_two_commits(w) ==
    /\ sessions[w].pc = "update_commit"
    /\ LET user_id == sessions[w].id
           data    == sessions[w].data
           loaded  == sessions[w].user
           pending == update_pending(loaded, data)
           merged  == [pending EXCEPT !.current_step = JInt(loaded.current_step)]
       IN  \E db_ok \in BOOLEAN :
             IF db_ok /\ user_id \in DOMAIN User
             THEN /\ User' = [User EXCEPT ![user_id] = update_flushed(@, loaded, pending)]
                  /\ sessions' = [sessions EXCEPT ![w] =
                                     [pc |-> "update_answer", data |-> data, id |-> user_id,
                                      pre |-> Snapshot]]
                  /\ UNCHANGED <<created, initialized, request, response, pre, commits>>
             ELSE /\ User' = IF user_id \in DOMAIN User
                             THEN [User EXCEPT ![user_id] = update_flushed(@, loaded, merged)]
                             ELSE User
                  /\ answers(w, "update_user_data", user_id, data,
                             Error(500, "Internal server error during update."),
                             Snapshot, <<FALSE>>)
    /\ UNCHANGED AdminConfig

\* update_user_data, lines 196-197: the commit; a failed commit is answered
\* at once (lines 199-203)
update_commit(w) ==
    /\ sessions[w].pc = "update_commit"
    /\ LET user_id == sessions[w].id
           data    == sessions[w].data
           loaded  == sessions[w].user
           pending == update_pending(loaded, data)
           \* the row was deleted since it was loaded
           stale   == user_id \notin DOMAIN User /\ update_dirty(loaded, pending)
       IN  \E db_ok \in commit_outcomes(loaded, data.currentStep) :
             IF db_ok /\ ~stale
             THEN /\ User' = IF user_id \in DOMAIN User
                             THEN [User EXCEPT ![user_id] = update_flushed(@, loaded, pending)]
                             ELSE User
                  /\ sessions' = [sessions EXCEPT ![w] =
                                     [pc |-> "update_answer", data |-> data, id |-> user_id,
                                      pre |-> Snapshot]]
                  /\ UNCHANGED <<created, initialized, request, response, pre, commits>>
             ELSE /\ User' = User
                  /\ answers(w, "update_user_data", user_id, data,
                             Error(500, "Internal server error during update."),
                             Snapshot, <<FALSE>>)
    /\ UNCHANGED AdminConfig

\* update_user_data, line 198: the answer, which reads the row again
\* (user.to_dict() after the commit); when the row is gone the read raises
\* and the handler answers 500
update_answer(w) ==
    /\ sessions[w].pc = "update_answer"
    /\ answers(w, "update_user_data", sessions[w].id, sessions[w].data,
               IF sessions[w].id \in DOMAIN User
               THEN Resp(200, User_to_dict(sessions[w].id, User[sessions[w].id]))
               ELSE Error(500, "Internal server error during update."),
               sessions[w].pre, <<TRUE>>)
    /\ UNCHANGED <<User, AdminConfig>>

----------------
(* POST /user/<id>/complete                                                *)

\* mutant: completion only moves the step forward
completed_forward(user) == [user EXCEPT !.current_step = Max(@, CompletedStep)]

\* user.current_step = 4
completed(user) == [user EXCEPT !.current_step = CompletedStep]

\* complete_onboarding, lines 210-214: the row is loaded and step 4 is pending
complete_load(w, user_id) ==
    /\ sessions[w].pc = "idle"
    /\ IF ~created
       THEN rejects(w, "complete_onboarding", user_id, <<>>, NoTable)
       ELSE IF user_id \notin DOMAIN User
       THEN rejects(w, "complete_onboarding", user_id, <<>>, Error(404, "User not found."))
       ELSE begins(w, "complete_onboarding", user_id, <<>>,
                   [pc |-> "complete_commit", data |-> <<>>, id |-> user_id,
                    user |-> User[user_id]])
    /\ UNCHANGED <<User, AdminConfig>>

\* mutant: the step is set on every row, not on the one loaded
complete_commit_of_all(w) ==
    /\ sessions[w].pc = "complete_commit"
    /\ \E db_ok \in BOOLEAN :
         IF db_ok
         THEN /\ User' = [i \in DOMAIN User |-> completed(User[i])]
              /\ answers(w, "complete_onboarding", sessions[w].id, <<>>,
                         Resp(200, [message |-> "Onboarding completed successfully!"]),
                         Snapshot, <<TRUE>>)
         ELSE /\ User' = User
              /\ answers(w, "complete_onboarding", sessions[w].id, <<>>,
                         Error(500, "Internal server error during completion."),
                         Snapshot, <<FALSE>>)
    /\ UNCHANGED AdminConfig

\* lines 216-223: the commit and the answer, which reads nothing
complete_commit(w) ==
    /\ sessions[w].pc = "complete_commit"
    /\ LET user_id == sessions[w].id
           loaded  == sessions[w].user
           pending == completed(loaded)
           \* the row was deleted since it was loaded
           stale   == user_id \notin DOMAIN User /\ dirty(loaded, pending)
       IN  \E db_ok \in BOOLEAN :
             IF db_ok /\ ~stale
             THEN /\ User' = IF user_id \in DOMAIN User
                             THEN [User EXCEPT ![user_id] = flushed(@, loaded, pending)]
                             ELSE User
                  /\ answers(w, "complete_onboarding", user_id, <<>>,
                             Resp(200, [message |-> "Onboarding completed successfully!"]),
                             Snapshot, <<TRUE>>)
             ELSE /\ User' = User
                  /\ answers(w, "complete_onboarding", user_id, <<>>,
                             Error(500, "Internal server error during completion."),
                             Snapshot, <<FALSE>>)
    /\ UNCHANGED AdminConfig

----------------
(* GET|PUT /admin/config                                                   *)

\* mutant: `if page:` instead of `if page is not None`, an empty list is skipped
updated_config_if_truthy(config_entry, data) ==
    [config_entry EXCEPT
       !.page1_components = IF data.page1.some /\ data.page1.val # <<>> THEN data.page1.val ELSE @,
       !.page2_components = IF data.page2.some /\ data.page2.val # <<>> THEN data.page2.val ELSE @,
       !.page3_components = IF data.page3.some /\ data.page3.val # <<>> THEN data.page3.val ELSE @]

\* config_entry after lines 247-252
updated_config(config_entry, data) ==
    [config_entry EXCEPT
       !.page1_components = IF data.page1.some THEN data.page1.val ELSE @,
       !.page2_components = IF data.page2.some THEN data.page2.val ELSE @,
       !.page3_components = IF data.page3.some THEN data.page3.val ELSE @]

\* mutant: users who completed onboarding keep their step
reset_unfinished_users(U) ==
    [i \in DOMAIN U |->
        IF U[i].current_step >= CompletedStep THEN U[i]
        ELSE [U[i] EXCEPT !.current_step = FirstStep]]

\* mutant: the reset also empties the collected data
reset_all_users_and_data(U) ==
    [i \in DOMAIN U |-> [U[i] EXCEPT !.current_step = FirstStep, !.onboarding_data = <<>>]]

\* for user in all_users: user.current_step = 1
reset_all_users(U) == [i \in DOMAIN U |-> [U[i] EXCEPT !.current_step = FirstStep]]

admin_config_missing ==
    Error(500, "Admin configuration not found. Please initialize the database using 'flask init-db'.")

admin_config_GET ==
    /\ request' = [op |-> "admin_config_GET", user_id |-> "", data |-> <<>>]
    /\ pre' = Snapshot
    /\ commits' = <<>>
    /\ response' = IF ~created
                   THEN NoTable
                   ELSE IF default_rows(AdminConfig) = {}
                   THEN admin_config_missing
                   ELSE Resp(200, AdminConfig_to_dict(config_entry_of(AdminConfig)))
    /\ UNCHANGED <<User, AdminConfig, created, initialized, sessions>>

\* PUT, lines 231-252: the SELECT of the default row, and the lists of the
\* request pending in the session
admin_config_select(w, data) ==
    /\ sessions[w].pc = "idle"
    /\ IF ~created
       THEN rejects(w, "admin_config_PUT", "", data, NoTable)
       ELSE IF default_rows(AdminConfig) = {}
       THEN rejects(w, "admin_config_PUT", "", data, admin_config_missing)
       ELSE begins(w, "admin_config_PUT", "", data,
                   [pc |-> "admin_config_commit", data |-> data, id |-> "",
                    config_entry |-> config_entry_of(AdminConfig)])
    /\ UNCHANGED <<User, AdminConfig>>

\* mutant: the flush stores a new row in the place of the stored one
flushed_config_as_new_row(stored, loaded, pending) ==
    [pending EXCEPT !.id = stored.id + 1]

\* the stored row of admin_config after the UPDATE a session flushes for a
\* row it loaded as `loaded` and holds as `pending`
flushed_config(stored, loaded, pending) ==
    [stored EXCEPT
       !.page1_components = IF pending.page1_components # loaded.page1_components
                            THEN pending.page1_components ELSE @,
       !.page2_components = IF pending.page2_components # loaded.page2_components
                            THEN pending.page2_components ELSE @,
       !.page3_components = IF pending.page3_components # loaded.page3_components
                            THEN pending.page3_components ELSE @]

PutFailed ==
    Error(500, "Internal server error updating admin config or resetting user progress.")

\* PUT, lines 254-255: the commit of the lists; a failed commit is answered
\* at once (lines 266-270)
admin_config_commit(w) ==
    /\ sessions[w].pc = "admin_config_commit"
    /\ LET data    == sessions[w].data
           loaded  == sessions[w].config_entry
           pending == updated_config(loaded, data)
           rows    == {r \in AdminConfig : r.id = loaded.id}
           \* the row was deleted since it was loaded
           stale   == rows = {} /\ pending # loaded
       IN  \E config_ok \in BOOLEAN :
             IF config_ok /\ ~stale
             THEN /\ AdminConfig' =
                        (AdminConfig \ rows)
                            \cup {flushed_config(r, loaded, pending) : r \in rows}
                  /\ sessions' = [sessions EXCEPT ![w] =
                                     [pc |-> "admin_config_load", data |-> data, id |-> "",
                                      config_entry |-> loaded, pre |-> Snapshot]]
                  /\ UNCHANGED <<created, initialized, request, response, pre, commits>>
             ELSE /\ AdminConfig' = AdminConfig
                  /\ answers(w, "admin_config_PUT", "", data, PutFailed, Snapshot, <<FALSE>>)
    /\ UNCHANGED User

\* mutant: the users are loaded for the reset only when the request has
\* supplied a list
admin_config_load_on_change(w) ==
    /\ sessions[w].pc = "admin_config_load"
    /\ LET data == sessions[w].data
       IN  IF created
           THEN /\ sessions' = [sessions EXCEPT ![w] =
                                   [pc |-> "admin_config_reset", data |-> data, id |-> "",
                                    config_entry |-> sessions[w].config_entry,
                                    pre |-> sessions[w].pre,
                                    all_users |-> IF data.page1.some \/ data.page2.some
                                                      \/ data.page3.some
                                                  THEN User ELSE <<>>]]
                /\ UNCHANGED <<created, initialized, request, response, pre, commits>>
           ELSE answers(w, "admin_config_PUT", "", data, PutFailed,
                        [User |-> User, AdminConfig |-> sessions[w].pre.AdminConfig],
                        <<TRUE>>)
    /\ UNCHANGED <<User, AdminConfig>>

\* PUT, lines 259-261: User.query.all(), and step 1 pending for each row
admin_config_load(w) ==
    /\ sessions[w].pc = "admin_config_load"
    /\ IF created
       THEN /\ sessions' = [sessions EXCEPT ![w] =
                               [pc |-> "admin_config_reset", data |-> sessions[w].data,
                                id |-> "", config_entry |-> sessions[w].config_entry,
                                pre |-> sessions[w].pre, all_users |-> User]]
            /\ UNCHANGED <<created, initialized, request, response, pre, commits>>
       ELSE \* the SELECT is inside the try: lines 266-270 answer
            answers(w, "admin_config_PUT", "", sessions[w].data, PutFailed,
                    [User |-> User, AdminConfig |-> sessions[w].pre.AdminConfig],
                    <<TRUE>>)
    /\ UNCHANGED <<User, AdminConfig>>

\* mutant: the reset is one UPDATE of the whole table, loaded or not
reset_loaded_users_all(U, all_users) == reset_all_users(U)

\* the table after the flush of the reset: step 1 is written to the rows that
\* were loaded with another step
reset_loaded_users(U, all_users) ==
    [i \in DOMAIN U |->
        IF i \in DOMAIN all_users
        THEN flushed(U[i], all_users[i], reset_all_users(all_users)[i])
        ELSE U[i]]

\* mutant: one transaction for the lists and the reset, so that the rollback
\* of a failed reset takes the new lists back
admin_config_reset_one_transaction(w) ==
    /\ sessions[w].pc = "admin_config_reset"
    /\ \E reset_ok \in BOOLEAN :
         IF reset_ok
         THEN /\ User' = reset_loaded_users(User, sessions[w].all_users)
              /\ AdminConfig' = AdminConfig
              /\ sessions' = [sessions EXCEPT ![w] =
                                 [pc |-> "admin_config_answer", data |-> sessions[w].data,
                                  id |-> "", config_entry |-> sessions[w].config_entry,
                                  pre |-> [User |-> User,
                                           AdminConfig |-> sessions[w].pre.AdminConfig]]]
              /\ UNCHANGED <<created, initialized, request, response, pre, commits>>
         ELSE /\ User' = User
              /\ AdminConfig' = sessions[w].pre.AdminConfig
              /\ answers(w, "admin_config_PUT", "", sessions[w].data, PutFailed,
                         [User |-> User, AdminConfig |-> sessions[w].pre.AdminConfig],
                         <<TRUE, FALSE>>)

\* PUT, line 262: the commit of the reset; a failed commit is answered at once
\* (lines 266-270).  The tables before the handler's commits are the lists
\* before the commit of line 255 and the users before this one.
admin_config_reset(w) ==
    /\ sessions[w].pc = "admin_config_reset"
    /\ LET all_users == sessions[w].all_users
           before    == [User |-> User, AdminConfig |-> sessions[w].pre.AdminConfig]
           \* a row to reset was deleted since it was loaded
           stale     == \E i \in DOMAIN all_users :
                           /\ i \notin DOMAIN User
                           /\ dirty(all_users[i], reset_all_users(all_users)[i])
       IN  \E reset_ok \in BOOLEAN :
             IF reset_ok /\ ~stale
             THEN /\ User' = reset_loaded_users(User, all_users)
                  /\ sessions' = [sessions EXCEPT ![w] =
                                     [pc |-> "admin_config_answer", data |-> sessions[w].data,
                                      id |-> "", config_entry |-> sessions[w].config_entry,
                                      pre |-> before]]
                  /\ UNCHANGED <<created, initialized, request, response, pre, commits>>
             ELSE /\ User' = User
                  /\ answers(w, "admin_config_PUT", "", sessions[w].data, PutFailed,
                             before, <<TRUE, FALSE>>)
    /\ AdminConfig' = AdminConfig

\* PUT, line 265: the answer, which reads the row of admin_config again
\* (config_entry.to_dict() after the commit); when the row is gone the read
\* raises and the handler answers 500
admin_config_answer(w) ==
    /\ sessions[w].pc = "admin_config_answer"
    /\ LET rows == {r \in AdminConfig : r.id = sessions[w].config_entry.id}
       IN  answers(w, "admin_config_PUT", "", sessions[w].data,
                   IF rows # {}
                   THEN Resp(200, AdminConfig_to_dict(CHOOSE r \in rows : TRUE))
                   ELSE PutFailed,
                   sessions[w].pre, <<TRUE, TRUE>>)
    /\ UNCHANGED <<User, AdminConfig>>

----------------
(* GET /admin/users, DELETE /admin/users/<id>, GET /                       *)

get_all_users ==
    /\ request' = [op |-> "get_all_users", user_id |-> "", data |-> <<>>]
    /\ pre' = Snapshot
    /\ commits' = <<>>
    /\ response' = IF ~created
                   THEN NoTable
                   ELSE Resp(200, {User_to_dict(i, User[i]) : i \in DOMAIN User})
    /\ UNCHANGED <<User, AdminConfig, created, initialized, sessions>>

\* the answer of line 292: f"User {user_id} deleted successfully."
deleted(user_id) ==
    Resp(200, [message |->
        CASE user_id = "backend-user-1" -> "User backend-user-1 deleted successfully."
          [] user_id = "backend-user-2" -> "User backend-user-2 deleted successfully."])

\* delete_user, lines 285-287: the row is loaded
delete_load(w, user_id) ==
    /\ sessions[w].pc = "idle"
    /\ IF ~created
       THEN rejects(w, "delete_user", user_id, <<>>, NoTable)
       ELSE IF user_id \notin DOMAIN User
       THEN rejects(w, "delete_user", user_id, <<>>, Resp(404, [message |-> "User not found."]))
       ELSE begins(w, "delete_user", user_id, <<>>,
                   [pc |-> "delete_commit", data |-> <<>>, id |-> user_id])
    /\ UNCHANGED <<User, AdminConfig>>

\* mutant: the row is only marked, the DELETE is never issued
delete_commit_keeping_row(w) ==
    /\ sessions[w].pc = "delete_commit"
    /\ \E db_ok \in IF created THEN BOOLEAN ELSE {FALSE} :
         answers(w, "delete_user", sessions[w].id, <<>>,
                 IF db_ok THEN deleted(sessions[w].id)
                 ELSE Error(500, "Internal server error deleting user."),
                 Snapshot, <<db_ok>>)
    /\ UNCHANGED <<User, AdminConfig>>

\* lines 289-297: the DELETE, the commit and the answer, which reads nothing;
\* a DELETE that finds the row gone is no error, one that finds no table is
delete_commit(w) ==
    /\ sessions[w].pc = "delete_commit"
    /\ \E db_ok \in IF created THEN BOOLEAN ELSE {FALSE} :
         /\ User' = IF db_ok THEN [i \in DOMAIN User \ {sessions[w].id} |-> User[i]] ELSE User
         /\ answers(w, "delete_user", sessions[w].id, <<>>,
                    IF db_ok THEN deleted(sessions[w].id)
                    ELSE Error(500, "Internal server error deleting user."),
                    Snapshot, <<db_ok>>)
    /\ UNCHANGED AdminConfig

home ==
    /\ request' = [op |-> "home", user_id |-> "", data |-> <<>>]
    /\ pre' = Snapshot
    /\ commits' = <<>>
    /\ response' = Resp(200, [message |-> "Flask Onboarding Backend is running!"])
    /\ UNCHANGED <<User, AdminConfig, created, initialized, sessions>>

----------------------------------------------------------------------------
(* flask init-db                                                           *)

\* the seed is added only when no 'default' row is found (line 66)
seeded(C) == IF default_rows(C) = {} THEN C \cup {default_config} ELSE C

\* the command prints its outcome; message stands for what it printed
init_db_ends(w, message, outcomes) ==
    /\ initialized' = IF message = "done" THEN TRUE ELSE initialized
    /\ request' = [op |-> "init_db_command", user_id |-> "", data |-> <<>>]
    /\ response' = Resp(0, [message |-> message])
    /\ pre' = IF sessions[w].pc = "idle" THEN Snapshot ELSE sessions[w].pre
    /\ commits' = outcomes
    /\ sessions' = [sessions EXCEPT ![w] = Idle]

init_db_goes_on(w, pc, before) ==
    /\ request' = [op |-> "init_db_command", user_id |-> "", data |-> <<>>]
    /\ response' = Pending
    /\ pre' = before
    /\ commits' = <<>>
    /\ sessions' = [sessions EXCEPT ![w] =
                       [pc |-> pc, data |-> <<>>, id |-> "", pre |-> before]]

\* init_db_command, line 50: db.drop_all() drops both tables, or raises and
\* the command ends (lines 79-83)
init_db_drop(w) ==
    /\ sessions[w].pc = "idle"
    /\ \E dropped \in BOOLEAN :
         IF dropped
         THEN /\ User' = <<>>
              /\ AdminConfig' = {}
              /\ created' = FALSE
              /\ initialized' = FALSE
              /\ init_db_goes_on(w, "init_db_create", Snapshot)
         ELSE /\ UNCHANGED <<User, AdminConfig, created>>
              /\ init_db_ends(w, "drop_all failed", <<>>)

\* init_db_command, line 53: db.create_all() creates both tables, or raises
\* and the command ends with the tables dropped
init_db_create(w) ==
    /\ sessions[w].pc = "init_db_create"
    /\ \E made \in BOOLEAN :
         IF made
         THEN /\ created' = TRUE
              /\ initialized' = initialized
              /\ init_db_goes_on(w, "init_db_select", sessions[w].pre)
         ELSE /\ created' = created
              /\ init_db_ends(w, "create_all failed", <<>>)
    /\ UNCHANGED <<User, AdminConfig>>

\* init_db_command, lines 57-66: the access test, whose failure is only
\* printed, and the SELECT of the default row, which may raise
init_db_select(w) ==
    /\ sessions[w].pc = "init_db_select"
    /\ \E selected \in IF created THEN BOOLEAN ELSE {FALSE} :
         IF ~selected
         THEN init_db_ends(w, "select failed", <<>>)
         ELSE IF default_rows(AdminConfig) # {}
         THEN init_db_ends(w, "done", <<>>)
         ELSE /\ initialized' = initialized
              /\ init_db_goes_on(w, "init_db_seed", sessions[w].pre)
    /\ UNCHANGED <<User, AdminConfig, created>>

\* init_db_command, lines 67-78: the seed is added and committed;
\* config_name is unique, so a second 'default' row is refused
init_db_seed(w) ==
    /\ sessions[w].pc = "init_db_seed"
    /\ \E seed_ok \in IF created /\ default_rows(AdminConfig) = {}
                      THEN BOOLEAN ELSE {FALSE} :
         /\ AdminConfig' = IF seed_ok THEN seeded(AdminConfig) ELSE AdminConfig
         /\ init_db_ends(w, IF seed_ok THEN "done" ELSE "commit failed", <<seed_ok>>)
    /\ UNCHANGED <<User, created>>

----------------------------------------------------------------------------
(* The database after `flask init-db`, before any request                  *)

Init ==
    /\ User = <<>>
    /\ AdminConfig = seeded({})
    /\ created = TRUE
    /\ initialized = TRUE
    /\ request = [op |-> "init_db_command", user_id |-> "", data |-> <<>>]
    /\ response = Resp(0, [message |-> "done"])
    /\ pre = [User |-> <<>>, AdminConfig |-> {}]
    /\ commits = <<TRUE>>
    /\ sessions = [w \in Workers |-> Idle]

----------------------------------------------------------------------------
(* Request bodies                                                          *)

\* the largest currentStep a client proposes
MaxStepInput == 5

register_body(username, email, password, age) ==
    [username |-> username, email |-> email, password |-> password, age |-> age]

\* well-formed registrations of an adult
ValidRegistrations ==
    {register_body(JStr(u), JStr(e), JStr(Password), JInt(AdultAge)) :
        u \in Usernames, e \in Emails}

\* the registrations of two different people
TwoRegistrations ==
    {register_body(JStr(Alice), JStr(EmailA), JStr(Password), JInt(AdultAge)),
     register_body(JStr(Bob), JStr(EmailB), JStr(Password), JStr(<<"1", "8">>))}

AgeInputs ==
    {JNull, JInt(0), JInt(0 - 3), JInt(MinAge), JInt(AdultAge - 1), JInt(AdultAge),
     JStr(<<>>), JStr(<<"0">>), JStr(<<"-", "5">>), JStr(<<"1", "7">>),
     JStr(<<"1", "8">>), JStr(<<" ", "1", "8", " ">>), JStr(<<"1", "7", ".", "5">>),
     JStr(<<"a", "b", "c">>), JList(1),
     \* whitespace of other kinds, and a control character that is none
     JStr(<<"\t", "1", "7">>), JStr(<<"1", "8", "\n">>), JStr(<<"\f", "1", "8", "\r">>),
     JStr(<<"\\u00a0", "1", "8">>), JStr(<<"\\u001f", "1", "8">>), JStr(<<"1", " ", "8">>),
     \* underscores and signs
     JStr(<<"1", "_", "8">>), JStr(<<"1", "_", "7">>), JStr(<<"1", "_", "_", "8">>),
     JStr(<<"_", "1", "8">>), JStr(<<"1", "8", "_">>), JStr(<<"+", "1", "8">>),
     JStr(<<"+", " ", "1", "8">>),
     \* digits of other scripts
     JStr(<<"\\u0663">>), JStr(<<"\\uff11", "\\uff18">>), JStr(<<"1", "\\u0668">>),
     JStr(<<"\\ud835\\udfcf", "\\ud835\\udfd6">>),
     \* numbers with a fraction, booleans, an object
     JFloat(17, <<"9">>), JFloat(25, <<"5">>), JFloat(0, <<"5">>), JNaN, JInfinity,
     JBool(TRUE), JBool(FALSE), JDict(1),
     \* the largest Integer and the number after it
     JStr(<<"2", "1", "4", "7", "4", "8", "3", "6", "4", "7">>),
     JStr(<<"2", "1", "4", "7", "4", "8", "3", "6", "4", "8">>)}

\* as many digits as int() converts, and one more
LongAgeInputs ==
    {JStr([i \in 1..int_max_str_digits |-> "1"]),
     JStr([i \in 1..(int_max_str_digits + 1) |-> "1"])}

\* the ages sent with bodies of which fields are missing or empty
FewAgeInputs ==
    {JNull, JInt(0), JInt(MinAge), JInt(AdultAge - 1), JInt(AdultAge),
     JStr(<<"1", "7">>), JStr(<<"a", "b", "c">>), JList(1)}

\* every combination of present, empty and missing fields, and every age
\* with the other fields given
AllRegistrations ==
    {register_body(u, e, p, a) :
        u \in {JNull} \cup {JStr(x) : x \in Usernames},
        e \in {JNull, JStr(<<>>)} \cup {JStr(x) : x \in Emails},
        p \in {JNull, JStr(Password)},
        a \in FewAgeInputs}
    \cup {register_body(JStr(Alice), JStr(EmailA), JStr(Password), a) : a \in AgeInputs}

LongAgeRegistrations ==
    {register_body(JStr(Alice), JStr(EmailA), JStr(Password), a) : a \in LongAgeInputs}

\* no mapping, the empty one, a new key, a new value for a stored key, and
\* an age that is equal (==) to the stored 18 and not the same, alone and with
\* a new value for another key
OnboardingDataInputs ==
    {None, Some(<<>>),
     Some([aboutMe |-> JStr(<<"h", "i">>)]),
     Some([aboutMe |-> JStr(<<"y", "o">>), age |-> JFloat(AdultAge, <<"0">>)]),
     Some([age |-> JFloat(AdultAge, <<"0">>)])}

CurrentStepInputs ==
    {JNull, JInt(0), JInt(2), JInt(MaxStepInput), JStr(<<"2">>), JBool(TRUE),
     JFloat(2, <<"4">>), JFloat(2, <<"5">>)}

\* data alone, a step alone, both, and neither
UpdateBodies ==
    {[onboardingData |-> d, currentStep |-> JNull] : d \in OnboardingDataInputs}
    \cup {[onboardingData |-> None, currentStep |-> k] : k \in CurrentStepInputs}
    \cup {[onboardingData |-> Some([aboutMe |-> JStr(<<"h", "i">>)]),
           currentStep |-> JInt(MaxStepInput)]}

config_body(page1, page2, page3) == [page1 |-> page1, page2 |-> page2, page3 |-> page3]

PageInputs == {None, Some(<<>>), Some(<<"name">>)}

AllConfigBodies == {config_body(a, b, c) : a \in PageInputs, b \in PageInputs, c \in PageInputs}

FewConfigBodies == {config_body(None, None, None), config_body(Some(<<>>), None, None)}

----------------------------------------------------------------------------
(* Specifications                                                          *)

\* the worker of the specifications that serve one request at a time
Worker == "w1"

register_steps(w) ==
    \/ register_select_username(w)
    \/ register_commit(w)
    \/ register_answer(w)

update_steps(w) ==
    \/ update_commit(w)
    \/ update_answer(w)

admin_config_steps(w) ==
    \/ admin_config_commit(w)
    \/ admin_config_load(w)
    \/ admin_config_reset(w)
    \/ admin_config_answer(w)

\* the onboarding flow, one request at a time
Next ==
    \/ \E data \in TwoRegistrations : register_select_email(Worker, data)
    \/ register_steps(Worker)
    \/ \E id \in Ids : Quiet /\ get_user_progress(id)
    \/ \E id \in Ids, data \in UpdateBodies : update_load(Worker, id, data)
    \/ update_steps(Worker)
    \/ \E id \in Ids : complete_load(Worker, id)
    \/ complete_commit(Worker)
    \/ \E data \in FewConfigBodies : admin_config_select(Worker, data)
    \/ admin_config_steps(Worker)
    \/ \E id \in Ids : delete_load(Worker, id)
    \/ delete_commit(Worker)

Spec == Init /\ [][Next]_vars

\* registration and user administration, one request at a time
NextRegister ==
    \/ \E data \in AllRegistrations : register_select_email(Worker, data)
    \* the ages of thousands of digits are sent while the table is empty
    \/ \E data \in LongAgeRegistrations : User = <<>> /\ register_select_email(Worker, data)
    \/ register_steps(Worker)
    \/ \E id \in Ids : delete_load(Worker, id)
    \/ delete_commit(Worker)
    \/ Quiet /\ get_all_users
    \/ Quiet /\ home
    \/ init_db_drop(Worker)
    \/ init_db_create(Worker)
    \/ init_db_select(Worker)
    \/ init_db_seed(Worker)

SpecRegister == Init /\ [][NextRegister]_vars

\* the admin configuration, one request at a time
NextConfig ==
    \/ \E data \in AllConfigBodies : admin_config_select(Worker, data)
    \/ admin_config_steps(Worker)
    \/ Quiet /\ admin_config_GET
    \/ \E data \in TwoRegistrations : register_select_email(Worker, data)
    \/ register_steps(Worker)
    \/ \E id \in Ids : complete_load(Worker, id)
    \/ complete_commit(Worker)
    \/ init_db_drop(Worker)
    \/ init_db_create(Worker)
    \/ init_db_select(Worker)
    \/ init_db_seed(Worker)

SpecConfig == Init /\ [][NextConfig]_vars

\* registrations and deletions, those of several workers interleaved
NextConc ==
    \/ \E w \in Workers, data \in ValidRegistrations : register_select_email(w, data)
    \/ \E w \in Workers : register_steps(w)
    \/ \E w \in Workers, id \in Ids : delete_load(w, id)
    \/ \E w \in Workers : delete_commit(w)

SpecConc == Init /\ [][NextConc]_vars

\* the worker that serves the admin's PUT, and the one that serves a user
AdminWorker == "w1"
UserWorker == "w2"

\* the body of the PUT that interleaves with the other requests
WindowConfigBody == config_body(Some(<<"name">>), None, None)

\* the updates that interleave with it
WindowUpdateBodies ==
    {[onboardingData |-> None, currentStep |-> JInt(3)],
     [onboardingData |-> Some([aboutMe |-> JStr(<<"h", "i">>)]), currentStep |-> JNull]}

\* one PUT of the admin configuration at a time, interleaved with one
\* registration or update at a time
NextWindow ==
    \/ \E data \in TwoRegistrations : register_select_email(UserWorker, data)
    \/ register_steps(UserWorker)
    \/ \E id \in Ids, data \in WindowUpdateBodies : update_load(UserWorker, id, data)
    \/ update_steps(UserWorker)
    \/ admin_config_select(AdminWorker, WindowConfigBody)
    \/ admin_config_steps(AdminWorker)

SpecWindow == Init /\ [][NextWindow]_vars

\* the registration of the one user the interleaved calls address
OneRegistration ==
    {register_body(JStr(Alice), JStr(EmailA), JStr(Password), JInt(AdultAge))}

\* two updates that write the same key; the step of the first is the one a
\* new user has, with a fraction that the Integer column rounds away
RaceUpdateBodies ==
    {[onboardingData |-> Some([aboutMe |-> JStr(<<"h", "i">>)]),
      currentStep |-> JFloat(FirstStep, <<"4">>)],
     [onboardingData |-> Some([aboutMe |-> JStr(<<"y", "o">>), age |-> JInt(30)]),
      currentStep |-> JInt(3)]}

\* the calls on one user, those of several workers interleaved
NextRace ==
    \/ \E data \in OneRegistration : register_select_email(Worker, data)
    \/ register_steps(Worker)
    \/ \E w \in Workers, id \in Ids, data \in RaceUpdateBodies : update_load(w, id, data)
    \/ \E w \in Workers : update_steps(w)
    \/ \E w \in Workers, id \in Ids : complete_load(w, id)
    \/ \E w \in Workers : complete_commit(w)
    \/ \E w \in Workers, id \in Ids : delete_load(w, id)
    \/ \E w \in Workers : delete_commit(w)

SpecRace == Init /\ [][NextRace]_vars

\* a PUT that sends the stored page1 and an empty page2
OtherConfigBody == config_body(Some(<<"email", "age">>), Some(<<>>), None)

\* two PUTs of the admin configuration interleaved with each other and with
\* a registration or an update
NextPuts ==
    \/ \E data \in OneRegistration : register_select_email(UserWorker, data)
    \/ register_steps(UserWorker)
    \/ \E id \in Ids : update_load(UserWorker, id, [onboardingData |-> None, currentStep |-> JInt(3)])
    \/ update_steps(UserWorker)
    \/ admin_config_select(AdminWorker, WindowConfigBody)
    \/ admin_config_select(UserWorker, OtherConfigBody)
    \/ \E w \in Workers : admin_config_steps(w)

SpecPuts == Init /\ [][NextPuts]_vars

----------------------------------------------------------------------------
(* Properties.  In a state, request and response are the last call and its *)
(* answer, pre the tables before that call, User and AdminConfig the       *)
(* tables after it.                                                        *)

\* the last call was of op, and it has been answered
Called(op) == request.op = op /\ response # Pending
Answered(op, status) == request.op = op /\ response.status = status

\* C1: an update_data call that proposes an integer step k stores
\* max(stored, k) as the user's current_step, and no update_data call,
\* whatever its outcome, leaves any user with a lower step than before.
C1_StepIsMax ==
    Called("update_user_data") =>
        /\ \A i \in DOMAIN pre.User :
              i \in DOMAIN User /\ User[i].current_step >= pre.User[i].current_step
        /\ (response.status = 200 /\ request.data.currentStep.t = "int") =>
              User[request.user_id].current_step =
                  Max(pre.User[request.user_id].current_step, request.data.currentStep.n)

\* an accepted update proposed a step below the stored one, which was kept
C1_Witness ==
    /\ Answered("update_user_data", 200)
    /\ request.data.currentStep.t = "int"
    /\ request.data.currentStep.n >= FirstStep
    /\ request.data.currentStep.n < pre.User[request.user_id].current_step
    /\ User[request.user_id].current_step = pre.User[request.user_id].current_step

\* C2: after an admin-config PUT answered 200, every stored user's
\* current_step is 1, whatever the steps were before the call.
C2_AllUsersReset ==
    Answered("admin_config_PUT", 200) =>
        /\ DOMAIN User = DOMAIN pre.User
        /\ \A i \in DOMAIN User : User[i].current_step = FirstStep

\* a successful PUT found two users, one of them at the completed step and
\* one past the first step
C2_Witness ==
    /\ Answered("admin_config_PUT", 200)
    /\ Cardinality(DOMAIN pre.User) = 2
    /\ \E i, j \in DOMAIN pre.User :
          /\ i # j
          /\ pre.User[i].current_step = CompletedStep
          /\ pre.User[j].current_step \notin {FirstStep, CompletedStep}
    /\ \A i \in DOMAIN User : User[i].current_step = FirstStep

Differs(old, P) == \E k \in DOMAIN P : k \notin DOMAIN old \/ ~py_eq(old[k], P[k])

C6_CompleteSetsFour ==
    Answered("complete_onboarding", 200) =>
        /\ request.user_id \in DOMAIN User
        /\ User[request.user_id].current_step = CompletedStep

\* a user past step 4 was completed, and came back to 4
C6_Witness ==
    /\ Answered("complete_onboarding", 200)
    /\ pre.User[request.user_id].current_step > CompletedStep
    /\ User[request.user_id].current_step = CompletedStep

\* C7: every stored user's current_step lies in 1..4.
C7_StepInRange ==
    \A i \in DOMAIN User : User[i].current_step \in FirstStep..CompletedStep

----------------------------------------------------------------------------
(* Registration                                                            *)

AllFieldsGiven(data) ==
    Truthy(data.username) /\ Truthy(data.email) /\ Truthy(data.password) /\ Truthy(data.age)

\* the age reads as an integer, and that integer is below 18
AgeBelowAdult(data) == py_int(data.age).exc = "" /\ py_int(data.age).n < AdultAge

\* every field given and the age an integer of 18 or more
WellFormed(data) ==
    AllFieldsGiven(data) /\ py_int(data.age).exc = "" /\ py_int(data.age).n >= AdultAge

\* C3 as stated: a register call with any age below 18 is answered 403 and
\* creates no user.
C3_AnyAgeBelow18Forbidden ==
    (Called("register_user") /\ AgeBelowAdult(request.data)) =>
        response.status = 403 /\ User = pre.User

\* C3 amended: a register call with an age below 18 creates no user; it is
\* answered 403 when all four fields are given and the age is 1..17, and 400
\* when a field is missing or empty or the age is below 1.
C3_MinorRejected ==
    (Called("register_user") /\ AgeBelowAdult(request.data)) =>
        /\ User = pre.User
        /\ response.status =
              IF AllFieldsGiven(request.data) /\ py_int(request.data.age).n >= MinAge
              THEN 403 ELSE 400

\* a complete request of a 17-year-old, given as a string, was answered 403
C3_Witness ==
    /\ Answered("register_user", 403)
    /\ request.data.age.t = "str"
    /\ py_int(request.data.age).n = AdultAge - 1
    /\ AllFieldsGiven(request.data)
    /\ User = pre.User

\* C4: when a registration has been answered 201 and the next call is a
\* well-formed registration with the same email, that call is answered 409
\* and the table holds exactly one user more than before the first call.
C4_SecondIsConflict ==
    [][(/\ Answered("register_user", 201)
        /\ request'.op = "register_user"
        /\ WellFormed(request'.data)
        /\ request'.data.email = request.data.email)
       => (/\ response'.status = 409
           /\ User' = User
           /\ Cardinality(DOMAIN User') = Cardinality(DOMAIN pre.User) + 1)]_vars

\* a well-formed registration met its email, and not its username, in the
\* table and was answered 409
C4_Witness ==
    /\ Answered("register_user", 409)
    /\ WellFormed(request.data)
    /\ email_exists(pre.User, request.data.email.s)
    /\ ~username_exists(pre.User, request.data.username.s)
    /\ User = pre.User
    /\ Cardinality(DOMAIN User) = 1

\* the answer the precedence of C9 gives a registration (0: the checks pass)
precedence_status(U, data) ==
    IF ~AllFieldsGiven(data) THEN 400
    ELSE IF py_int(data.age).exc # "" THEN 400
    ELSE IF py_int(data.age).n < MinAge THEN 400
    ELSE IF py_int(data.age).n < AdultAge THEN 403
    ELSE IF email_exists(U, data.email.s) THEN 409
    ELSE IF username_exists(U, data.username.s) THEN 409
    ELSE 0

\* C9: the checks of a registration run in the order missing field (400),
\* age not an integer (400), age < 1 (400), age < 18 (403), email stored
\* (409), username stored (409); the first that fails decides the answer,
\* and a rejected registration leaves the table as it was.
C9_Precedence ==
    Called("register_user") =>
        LET expected == precedence_status(pre.User, request.data)
        IN  /\ expected # 0 => response.status = expected /\ User = pre.User
            /\ expected = 0 => response.status \in {201, 500}

----------------------------------------------------------------------------
(* Admin configuration                                                     *)

\* what a PUT of data makes of a stored row, by C8
replaced(row, data) ==
    [page1 |-> IF data.page1.some THEN data.page1.val ELSE row.page1_components,
     page2 |-> IF data.page2.some THEN data.page2.val ELSE row.page2_components,
     page3 |-> IF data.page3.some THEN data.page3.val ELSE row.page3_components]

\* C8: an admin-config PUT answered 200 leaves one row whose lists are the
\* supplied ones where supplied and the prior ones where omitted, and answers
\* with them; a GET that follows at once answers 200 with the same lists.
C8_ReplaceNotMerge ==
    [][/\ (request'.op = "admin_config_PUT" /\ response'.status = 200) =>
             /\ Cardinality(AdminConfig') = 1
             /\ AdminConfig_to_dict(config_entry_of(AdminConfig'))
                   = replaced(config_entry_of(pre'.AdminConfig), request'.data)
             /\ response'.body = replaced(config_entry_of(pre'.AdminConfig), request'.data)
       /\ (Answered("admin_config_PUT", 200) /\ request'.op = "admin_config_GET") =>
             response' = Resp(200, replaced(config_entry_of(pre.AdminConfig), request.data))
      ]_vars

\* a successful PUT put an empty list in the place of a stored non-empty one,
\* another list in the place of a second, and omitted the third
C8_Witness ==
    /\ Answered("admin_config_PUT", 200)
    /\ LET old == config_entry_of(pre.AdminConfig)
           new == config_entry_of(AdminConfig)
       IN  /\ request.data.page1 = Some(<<>>)
           /\ old.page1_components # <<>>
           /\ new.page1_components = <<>>
           /\ request.data.page2 = Some(<<"name">>)
           /\ old.page2_components = <<"aboutMe", "address">>
           /\ new.page2_components = <<"name">>
           /\ request.data.page3 = None
           /\ new.page3_components = old.page3_components

----------------------------------------------------------------------------
(* Uniqueness                                                              *)

\* C10: no two stored users have the same email, also when registrations
\* with the same email interleave.
C10_EmailUnique ==
    \A i, j \in DOMAIN User : User[i].email = User[j].email => i = j

\* two registrations with one email had both passed the existence check; one
\* was stored, and the commit of the other was refused
C10_Witness ==
    /\ Answered("register_user", 500)
    /\ commits = <<FALSE>>
    /\ \E i \in DOMAIN pre.User :
          /\ pre.User[i].email = request.data.email.s
          /\ pre.User[i].username # request.data.username.s
    /\ User = pre.User

\* C11: no two stored users have the same username, also when registrations
\* with the same username and different emails interleave; a registration
\* whose username, and not its email, is stored is answered 409 (500 when the
\* storage fails) and stores nothing.
C11_UsernameUnique ==
    /\ \A i, j \in DOMAIN User : User[i].username = User[j].username => i = j
    /\ (/\ Called("register_user")
        /\ WellFormed(request.data)
        /\ username_exists(pre.User, request.data.username.s)
        /\ ~email_exists(pre.User, request.data.email.s))
       => response.status \in {409, 500} /\ User = pre.User

----------------------------------------------------------------------------
(* Storage failures                                                        *)

\* C12: when the config commit of an admin-config PUT succeeds and its reset
\* commit fails, the call is answered 500, the stored row has the new lists
\* (the supplied ones where supplied, the prior ones where omitted) and every
\* user is stored as before the call.
C12_ResetFailureKeepsConfig ==
    (Called("admin_config_PUT") /\ commits = <<TRUE, FALSE>>) =>
        /\ response.status = 500
        /\ Cardinality(AdminConfig) = 1
        /\ AdminConfig_to_dict(config_entry_of(AdminConfig))
              = replaced(config_entry_of(pre.AdminConfig), request.data)
        /\ User = pre.User

\* the reset commit failed after a config commit that changed a list, with a
\* user past the first step: the list is changed, the user's step is kept
C12_Witness ==
    /\ Called("admin_config_PUT")
    /\ commits = <<TRUE, FALSE>>
    /\ response.status = 500
    /\ request.data.page1 = Some(<<"name">>)
    /\ config_entry_of(pre.AdminConfig).page1_components # <<"name">>
    /\ config_entry_of(AdminConfig).page1_components = <<"name">>
    /\ \E i \in DOMAIN User :
          User[i].current_step # FirstStep /\ User[i] = pre.User[i]

\* C13: when the commit of an update_data call fails, the call is answered
\* 500 and every stored user, the targeted one with its onboarding_data and
\* current_step included, is exactly as before the call.
C13_UpdateFailureKeepsUser ==
    (Called("update_user_data") /\ commits = <<FALSE>>) =>
        /\ response = Error(500, "Internal server error during update.")
        /\ request.user_id \in DOMAIN User
        /\ User[request.user_id].onboarding_data = pre.User[request.user_id].onboarding_data
        /\ User[request.user_id].current_step = pre.User[request.user_id].current_step
        /\ User = pre.User

\* the failed update carried a new key and a step above the stored one;
\* neither is stored
C13_Witness ==
    /\ Called("update_user_data")
    /\ commits = <<FALSE>>
    /\ response.status = 500
    /\ request.data.onboardingData.some
    /\ \E k \in DOMAIN request.data.onboardingData.val :
          k \notin DOMAIN User[request.user_id].onboarding_data
    /\ request.data.currentStep.t = "int"
    /\ request.data.currentStep.n > User[request.user_id].current_step
    /\ User = pre.User

----------------------------------------------------------------------------
(* Deletion and frame effects                                              *)

\* the operations that address one user by id
ById == {"get_user_progress", "update_user_data", "complete_onboarding", "delete_user"}

\* C14: a delete answered 200 leaves its id without a row; from then on a
\* progress fetch, an update_data, a complete and a further delete of an id
\* without a row are answered 404 and leave it without a row, and no call
\* other than a registration that draws the same id gives it a row again.
C14_DeletedStaysNotFound ==
    [][/\ (request'.op = "delete_user" /\ response'.status = 200) =>
             /\ request'.user_id \in DOMAIN User
             /\ request'.user_id \notin DOMAIN User'
       /\ \A id \in Ids :
             (id \notin DOMAIN User /\ request'.op \in ById /\ request'.user_id = id) =>
                 response'.status = 404 /\ id \notin DOMAIN User'
       /\ \A id \in Ids :
             (id \notin DOMAIN User /\ request'.op # "register_user") =>
                 id \notin DOMAIN User'
      ]_vars

\* a delete of one of two stored users was answered 200: its row is gone and
\* the other user's row is kept
C14_Witness ==
    /\ Answered("delete_user", 200)
    /\ request.user_id \in DOMAIN pre.User
    /\ request.user_id \notin DOMAIN User
    /\ Cardinality(DOMAIN pre.User) = 2
    /\ Cardinality(DOMAIN User) = 1

\* a row of admin_config without its three lists
row_identity(r) == [id |-> r.id, config_name |-> r.config_name]

\* C15 as stated: every reachable state has exactly one admin_config row,
\* named "default".  An init-db run drops the row before it seeds it again,
\* and a run that fails after db.drop_all() leaves no row.
C15_AlwaysOneDefaultRow ==
    /\ Cardinality(AdminConfig) = 1
    /\ Cardinality(default_rows(AdminConfig)) = 1

\* exactly one row, named "default", from the end of an init-db run that
\* completes to the next db.drop_all(); no row from a db.drop_all() to the
\* end of the next run that completes
OneDefaultRowSinceInit ==
    IF initialized
    THEN /\ Cardinality(AdminConfig) = 1
         /\ Cardinality(default_rows(AdminConfig)) = 1
    ELSE AdminConfig = {}

\* an init-db run ends "done" only with the one row there; every API call
\* leaves the rows of admin_config the same rows (no row created, none
\* deleted, id and name kept); only an admin-config PUT changes any list;
\* and while there is no row the admin-config endpoint answers 500
RowsKept ==
    /\ (request'.op = "init_db_command" /\ response' # Pending
           /\ response'.body.message = "done") =>
             /\ Cardinality(AdminConfig') = 1
             /\ Cardinality(default_rows(AdminConfig')) = 1
    /\ (request'.op = "init_db_command" /\ AdminConfig' # AdminConfig) =>
             \/ AdminConfig' = {}
             \/ AdminConfig = {} /\ AdminConfig' = {default_config}
    /\ request'.op # "init_db_command" =>
             /\ Cardinality(AdminConfig') = Cardinality(AdminConfig)
             /\ {row_identity(r) : r \in AdminConfig'} = {row_identity(r) : r \in AdminConfig}
    /\ request'.op \notin {"init_db_command", "admin_config_PUT"} =>
             AdminConfig' = AdminConfig
    /\ (request'.op \in {"admin_config_GET", "admin_config_PUT"}
           /\ response' # Pending /\ AdminConfig = {}) =>
             response'.status = 500

\* C15: between an init-db run that completes and the next drop of the
\* tables every state has exactly one admin_config row, named "default";
\* init-db seeds it only when it is absent, an admin-config PUT changes only
\* its lists and no API call creates or deletes a row.  From a drop of the
\* tables to the end of the next init-db run that completes there is no row
\* and the admin-config endpoint answers 500.
C15_OneDefaultRow == []OneDefaultRowSinceInit /\ [][RowsKept]_vars

\* an init-db run over tables that held a user and changed lists has
\* dropped them and seeded the one "default" row afresh
C15_Witness ==
    /\ request.op = "init_db_command"
    /\ response = Resp(0, [message |-> "done"])
    /\ commits = <<TRUE>>
    /\ pre.User # <<>>
    /\ Cardinality(pre.AdminConfig) = 1
    /\ config_entry_of(pre.AdminConfig) # default_config
    /\ User = <<>>
    /\ AdminConfig = {default_config}
    /\ initialized

----------------------------------------------------------------------------
(* The window between the two commits of the PUT                           *)

\* C16: when the reset commit of a PUT succeeds, a stored user whom
\* the PUT loaded at a step other than 1 stands at step 1, whatever was
\* written to that user since (was reset); every other stored user, loaded
\* at step 1 or stored since the load, keeps the row written by the update
\* or the registration that interleaved (was not reset).
C16_WindowOutcomes ==
    [][\A w \in Workers :
          (/\ sessions[w].pc = "admin_config_reset"
           /\ sessions'[w].pc = "admin_config_answer") =>
              /\ DOMAIN User' = DOMAIN User
              /\ \A i \in DOMAIN User :
                    IF /\ i \in DOMAIN sessions[w].all_users
                       /\ sessions[w].all_users[i].current_step # FirstStep
                    THEN /\ User'[i].current_step = FirstStep
                         /\ User'[i].onboarding_data = User[i].onboarding_data
                    ELSE User'[i] = User[i]
      ]_vars

\* both outcomes after one PUT answered 200: one user, raised to step 3
\* before the PUT loaded the users, stands at step 1; another, raised to
\* step 3 by an update committed between the load and the reset commit,
\* stands at step 3
C16_Witness ==
    /\ Answered("admin_config_PUT", 200)
    /\ commits = <<TRUE, TRUE>>
    /\ \E i, j \in DOMAIN User \cap DOMAIN pre.User :
          /\ i # j
          /\ pre.User[i].current_step = 3
          /\ User[i].current_step = FirstStep
          /\ pre.User[j].current_step = 3
          /\ User[j].current_step = 3

----------------------------------------------------------------------------
(* What the reset, and the calls on one user, leave alone                  *)

\* C17: an admin-config PUT answered 200 whose body supplies none of page1,
\* page2, page3 (absent or null) leaves the three stored lists as they were,
\* answers with them, and leaves every stored user at step 1.
C17_EmptyPutStillResets ==
    (Answered("admin_config_PUT", 200) /\ request.data = config_body(None, None, None)) =>
        /\ AdminConfig = pre.AdminConfig
        /\ response.body = AdminConfig_to_dict(config_entry_of(pre.AdminConfig))
        /\ DOMAIN User = DOMAIN pre.User
        /\ \A i \in DOMAIN User : User[i].current_step = FirstStep

\* a PUT with no list found a user at the completed step and reset that user
C17_Witness ==
    /\ Answered("admin_config_PUT", 200)
    /\ request.data = config_body(None, None, None)
    /\ AdminConfig = pre.AdminConfig
    /\ \E i \in DOMAIN pre.User :
          /\ pre.User[i].current_step = CompletedStep
          /\ User[i].current_step = FirstStep

\* C18: an admin-config PUT, whatever its answer, leaves the set of stored
\* users as it was and changes no column of any user but current_step: id,
\* username, email, age (and password hash) and onboarding_data are as
\* before the call.
C18_ResetChangesOnlyStep ==
    Called("admin_config_PUT") =>
        /\ DOMAIN User = DOMAIN pre.User
        /\ \A i \in DOMAIN User :
              /\ User[i].username = pre.User[i].username
              /\ User[i].email = pre.User[i].email
              /\ User[i].age = pre.User[i].age
              /\ User[i].onboarding_data = pre.User[i].onboarding_data
              /\ User[i] = [pre.User[i] EXCEPT !.current_step = User[i].current_step]

\* the reset took a user with collected data from a later step to step 1 and
\* left the data
C18_Witness ==
    /\ Answered("admin_config_PUT", 200)
    /\ \E i \in DOMAIN User :
          /\ pre.User[i].current_step > FirstStep
          /\ User[i].current_step = FirstStep
          /\ "aboutMe" \in DOMAIN pre.User[i].onboarding_data
          /\ User[i].onboarding_data = pre.User[i].onboarding_data

\* C19: update_data, complete and delete of an id that is not stored are
\* answered 404 and leave both tables as they were; whatever their answer,
\* they leave every user but the targeted one, and the admin config, as they
\* were, and store no new user.
C19_OnlyTargetChanges ==
    (\E op \in {"update_user_data", "complete_onboarding", "delete_user"} : Called(op)) =>
        /\ AdminConfig = pre.AdminConfig
        /\ request.user_id \notin DOMAIN pre.User =>
              response.status = 404 /\ User = pre.User
        /\ DOMAIN User \subseteq DOMAIN pre.User
        /\ DOMAIN pre.User \ {request.user_id} \subseteq DOMAIN User
        /\ \A i \in DOMAIN pre.User \ {request.user_id} : User[i] = pre.User[i]

\* a complete of one of two users past step 1 was answered 200: the targeted
\* user's step changed and the other user's row is as before
C19_Witness ==
    /\ Answered("complete_onboarding", 200)
    /\ User[request.user_id] # pre.User[request.user_id]
    /\ \E i \in DOMAIN User :
          /\ i # request.user_id
          /\ User[i].current_step \notin {FirstStep, CompletedStep}
          /\ User[i] = pre.User[i]

============================================================================
